------------------------------ MODULE Spec2Model ------------------------------
(***************************************************************************)
(* Model of the Smart Tutor request handler of ai/run.py: the intent       *)
(* router, the confirmation override, the three specialist dispatchers and *)
(* the two output sanitizers.                                              *)
(*                                                                         *)
(* Python strings are TLA+ strings, handled character by character with    *)
(* Len, SubSeq and \o.  Positions are 1-based: Python's index i is i + 1   *)
(* here, and Python's find() result -1 ("not found") is 0 here.            *)
(* Python's None is the value None below; a str argument that may be None  *)
(* ranges over real strings and None.                                      *)
(***************************************************************************)
EXTENDS Naturals, Sequences, FiniteSets, TLC

VARIABLES
    pc,                 \* position of the running coroutine / pure call
    messages,           \* run_tutor_router(messages, ...)
    user_id,            \* run_tutor_router(..., user_id, ...)
    access_token,       \* run_tutor_router(..., access_token)
    save_tool,          \* TRUE iff save_tool is not None
    check_tool,         \* TRUE iff check_tool is not None
    router_result,      \* what RouterCrew().crew().kickoff_async returned
    decision,           \* the RouterDecision in use (after the override)
    override_intent,    \* _detect_save_confirmation_and_override_intent(messages)
    crew,               \* the specialist crew awaited: its name and its tools
    specialist_result,  \* what the specialist's kickoff_async returned
    result,             \* the dict run_tutor_router returned
    is_save_confirmation, \* the local of that name (line 346)
    calls,              \* history: the crews kicked off so far, in order
    arg,                \* argument of a sanitizer called on its own
    ret,                \* value the sanitizer returned
    deck,               \* the rows of table word_pairs, in insertion order
    _run,               \* per caller: the frame of its SaveWordPairTool._run call
    entry_pc,           \* position of the voice agent's entrypoint coroutine
    word_pairs,         \* the list _load_public_word_pairs returned
    session_started,    \* session.start(agent=assistant) has completed
    connected,          \* ctx.connect() has completed
    rpc_registered,     \* register_rpc_method("start_game") has run
    replies,            \* history: the session.generate_reply calls, in order
    rpc_log,            \* history: what became of each start_game request
    http_pc,            \* position of the request to /api/tutor-chat
    auth_header,        \* request.headers.get("Authorization")
    data,               \* the JSON value of the request body
    request,            \* request.user and request.auth_token
    response,           \* the (body, status) pair returned to the client
    http_log            \* history: the calls made for this request, in order

\* the variables of run_tutor_router and of the functions called on their own
routerVars == <<pc, messages, user_id, access_token, save_tool, check_tool,
                router_result, decision, override_intent, crew,
                specialist_result, result, is_save_confirmation, calls, arg, ret>>

\* the variables of the save tool and its table
storeVars == <<deck, _run>>

\* the variables of the voice agent's entrypoint
voiceVars == <<entry_pc, word_pairs, session_started, connected, rpc_registered,
               replies, rpc_log>>

\* the variables of the request to /api/tutor-chat
httpVars == <<http_pc, auth_header, data, request, response, http_log>>

\* the variables another part of the program leaves alone
ext == <<storeVars, voiceVars, httpVars>>

vars == <<routerVars, ext>>

None == "<None>"

\* JSON values as Python sees them after request.get_json()
JNull == [ type |-> "NoneType" ]
JStr(text) == [ type |-> "str", value |-> text ]
JInt(n) == [ type |-> "int", value |-> n ]
JList(items) == [ type |-> "list", items |-> items ]
\* a body object: its keys and the value under "messages"
JBody(keys, msgs) == [ type |-> "dict", keys |-> keys, messages |-> msgs ]
\* a message object: msg.get("role") and msg.get("content"), JNull if absent
JMsg(role, content) == [ type |-> "dict", role |-> role, content |-> content ]

\* Python truthiness of an Optional[str]: None and "" are falsy.
Truthy(s) == s # None /\ s # ""

-----------------------------------------------------------------------------
(* str methods used by run.py *)

WhiteChars == {" ", "\n", "\t"}

CharAt(s, i) == SubSeq(s, i, i)

\* s[i:] of Python, with i 1-based here
From(s, i) == SubSeq(s, i, Len(s))

MatchAt(s, p, i) == i >= 1 /\ i + Len(p) - 1 <= Len(s) /\ SubSeq(s, i, i + Len(p) - 1) = p

Min(S) == CHOOSE i \in S : \A j \in S : i <= j
Max(S) == CHOOSE i \in S : \A j \in S : j <= i

\* s.find(p, start): the lowest position >= start where p occurs, 0 if none
Find(s, p, start) ==
    LET hits == { i \in start..(Len(s) - Len(p) + 1) : MatchAt(s, p, i) }
    IN  IF hits = {} THEN 0 ELSE Min(hits)

\* p in s
Contains(s, p) == Find(s, p, 1) # 0

StartsWith(s, p) == MatchAt(s, p, 1)

\* s.replace(p, r): every non-overlapping occurrence, left to right
RECURSIVE Replace(_, _, _)
Replace(s, p, r) ==
    LET i == Find(s, p, 1)
    IN  IF i = 0 THEN s
        ELSE SubSeq(s, 1, i - 1) \o r \o Replace(From(s, i + Len(p)), p, r)

\* s.lstrip(chars)
LStripChars(s, chars) ==
    LET keep == { i \in 1..Len(s) : CharAt(s, i) \notin chars }
    IN  IF keep = {} THEN "" ELSE From(s, Min(keep))

\* s.rstrip(chars)
RStripChars(s, chars) ==
    LET keep == { i \in 1..Len(s) : CharAt(s, i) \notin chars }
    IN  IF keep = {} THEN "" ELSE SubSeq(s, 1, Max(keep))

\* s.strip()
Strip(s) == RStripChars(LStripChars(s, WhiteChars), WhiteChars)

UpperAlphabet == "ABCDEFGHIJKLMNOPQRSTUVWXYZ"
LowerAlphabet == "abcdefghijklmnopqrstuvwxyz"

LowerTable ==
    [ c \in { CharAt(UpperAlphabet, i) : i \in 1..Len(UpperAlphabet) } |->
        CharAt(LowerAlphabet, Find(UpperAlphabet, c, 1)) ]

LowerChar(c) == IF c \in DOMAIN LowerTable THEN LowerTable[c] ELSE c

\* s.lower(), computed by halves
RECURSIVE Lower(_)
Lower(s) ==
    IF Len(s) = 0 THEN ""
    ELSE IF Len(s) = 1 THEN LowerChar(s)
    ELSE LET h == Len(s) \div 2
         IN  Lower(SubSeq(s, 1, h)) \o Lower(From(s, h + 1))

-----------------------------------------------------------------------------
(* The output sanitizers *)

AlreadyInDeck == "already in your deck"

OfferPhrases ==
    << "Would you like me to save this word to your flashcard deck?",
       "Would you like me to add this to your flashcard deck?",
       "Would you like me to add this word to your flashcard deck?" >>

\* while "  " in content: content = content.replace("  ", " ")
RECURSIVE CollapseSpaces(_)
CollapseSpaces(s) ==
    IF Contains(s, "  ") THEN CollapseSpaces(Replace(s, "  ", " ")) ELSE s

\* one iteration of the for loop of _strip_offer_when_already_in_deck
StripOnePhrase(content, phrase) ==
    IF Contains(content, phrase)
    THEN LET c1 == Strip(Replace(content, phrase, ""))
             c2 == CollapseSpaces(c1)
         IN  IF StartsWith(c2, ". ") THEN Strip(From(c2, 3)) ELSE c2
    ELSE content

_strip_offer_when_already_in_deck(content) ==
    IF content = "" \/ ~Contains(content, AlreadyInDeck) THEN content
    ELSE StripOnePhrase(
             StripOnePhrase(
                 StripOnePhrase(content, OfferPhrases[1]),
                 OfferPhrases[2]),
             OfferPhrases[3])

DoneMarker == "Done! I've added"
DoneEndPhrase == "You'll see it in your next practice session."
NoDuplicate == "No duplicate was created"
ThisWordPair == "This word pair"
DupEndPhrase == "No duplicate was created."

\* the end phrase searched from the beginning of content, not from start
ExtractSuccess_EndFromBeginning(content) ==
    LET start == Find(content, DoneMarker, 1)
        end == Find(content, DoneEndPhrase, 1)
    IN  IF end # 0
        THEN Strip(SubSeq(content, start, end + Len(DoneEndPhrase) - 1))
        ELSE Strip(From(content, start))

\* the success branch of _extract_save_tool_message_only
ExtractSuccess(content) ==
    LET start == Find(content, DoneMarker, 1)
        end == Find(content, DoneEndPhrase, start)
    IN  IF end # 0
        THEN Strip(SubSeq(content, start, end + Len(DoneEndPhrase) - 1))
        ELSE Strip(From(content, start))

\* the text is cut after the tool message only: what precedes it is kept
ExtractDuplicate_KeepsPrefix(content) ==
    LET start == Find(content, ThisWordPair, 1)
        end == Find(content, DupEndPhrase, start)
    IN  IF start = 0 THEN content
        ELSE IF end # 0
        THEN Strip(SubSeq(content, 1, end + Len(DupEndPhrase) - 1))
        ELSE Strip(content)

\* the duplicate branch of _extract_save_tool_message_only
ExtractDuplicate(content) ==
    LET start == Find(content, ThisWordPair, 1)
        end == Find(content, DupEndPhrase, start)
    IN  IF start = 0 THEN content
        ELSE IF end # 0
        THEN Strip(SubSeq(content, start, end + Len(DupEndPhrase) - 1))
        ELSE Strip(From(content, start))

_extract_save_tool_message_only(content) ==
    IF content = "" \/ Strip(content) = "" THEN content
    ELSE IF Contains(content, DoneMarker) THEN ExtractSuccess(content)
    ELSE IF Contains(content, AlreadyInDeck) \/ Contains(content, NoDuplicate)
    THEN ExtractDuplicate(content)
    ELSE content

-----------------------------------------------------------------------------
(* The confirmation override *)

_SAVE_CONFIRMATION_PHRASES ==
    { "yes", "yeah", "yep", "sure", "ok", "okay", "please", "please do",
      "save it", "yes, save it", "yes save it", "add it", "add it please",
      "go ahead", "do it", "yes please", "sure thing" }

ConfirmationKeywords == { "yes", "save", "add", "sure", "please" }

MaxConfirmationLen == 60
MaxKeywordReplyLen == 25

\* x or ""
OrEmpty(s) == IF Truthy(s) THEN s ELSE ""

\* (last.get("content") or "").strip().lower().rstrip(".,!?")
NormalizeReply(content) ==
    RStripChars(Lower(Strip(OrEmpty(content))), {".", ",", "!", "?"})

\* the 25-character limit lost: any reply up to 60 characters holding a
\* keyword counts
IsConfirmation_NoShortLimit(user_content) ==
    /\ user_content # ""
    /\ Len(user_content) <= MaxConfirmationLen
    /\ \/ user_content \in _SAVE_CONFIRMATION_PHRASES
       \/ \E w \in ConfirmationKeywords : Contains(user_content, w)

\* lines 236-242: is the normalised reply a short confirmation?
IsConfirmation(user_content) ==
    /\ user_content # ""
    /\ Len(user_content) <= MaxConfirmationLen
    /\ \/ user_content \in _SAVE_CONFIRMATION_PHRASES
       \/ /\ \E w \in ConfirmationKeywords : Contains(user_content, w)
          /\ Len(user_content) <= MaxKeywordReplyLen

\* the loop run forwards: the first assistant message is taken
LastAssistantContent_First(msgs) ==
    LET idx == { i \in 1..Len(msgs) : msgs[i].role = "assistant" }
    IN  IF idx = {} THEN None
        ELSE Lower(Strip(OrEmpty(msgs[Min(idx)].content)))

\* lines 244-248: the content of the last assistant message, stripped and
\* lower-cased; None when the conversation has no assistant message
LastAssistantContent(msgs) ==
    LET idx == { i \in 1..Len(msgs) : msgs[i].role = "assistant" }
    IN  IF idx = {} THEN None
        ELSE Lower(Strip(OrEmpty(msgs[Max(idx)].content)))

\* the test for "vocabulary" missing from line 256
IntentFromOffer_NewWordOnly(last_assistant_content) ==
    IF ~Truthy(last_assistant_content) THEN None
    ELSE IF ~Contains(last_assistant_content, "flashcard") THEN None
    ELSE IF /\ ~Contains(last_assistant_content, "save")
            /\ ~Contains(last_assistant_content, "add") THEN None
    ELSE IF Contains(last_assistant_content, "new word") THEN "new_vocabulary"
    ELSE "translation"

\* lines 249-259: the intent chosen from the assistant's offer
IntentFromOffer(last_assistant_content) ==
    IF ~Truthy(last_assistant_content) THEN None
    ELSE IF ~Contains(last_assistant_content, "flashcard") THEN None
    ELSE IF /\ ~Contains(last_assistant_content, "save")
            /\ ~Contains(last_assistant_content, "add") THEN None
    ELSE IF \/ Contains(last_assistant_content, "new word")
            \/ Contains(last_assistant_content, "vocabulary") THEN "new_vocabulary"
    ELSE "translation"

_detect_save_confirmation_and_override_intent(msgs) ==
    IF Len(msgs) < 2 THEN None
    ELSE IF msgs[Len(msgs)].role # "user" THEN None
    ELSE IF ~IsConfirmation(NormalizeReply(msgs[Len(msgs)].content)) THEN None
    ELSE IntentFromOffer(LastAssistantContent(msgs))

-----------------------------------------------------------------------------
(* schemas.py *)

IntentType ==
    { "translation", "new_vocabulary", "grammar_explanation",
      "writing_correction", "cultural_context",
      "small_talk_language_related", "off_topic" }

RouterDecision(intent, allowed_domain, specialist_instruction, refusal_message) ==
    [ intent |-> intent,
      allowed_domain |-> allowed_domain,
      specialist_instruction |-> specialist_instruction,
      refusal_message |-> refusal_message ]

\* TutorMessage(...).model_dump(); word_card is an opaque card or None,
\* actions a list of opaque actions
TutorMessage(content, intent, word_card, actions, delegated_agent) ==
    [ role |-> "assistant",
      content |-> content,
      intent |-> intent,
      word_card |-> word_card,
      actions |-> actions,
      delegated_agent |-> delegated_agent ]

TranslationOutput(content) == [ content |-> content ]

-----------------------------------------------------------------------------
(* run_tutor_router *)

DefaultRefusal ==
    "I'm your language tutor and can only help with language-related questions. "
    \o "Try asking about translations, vocabulary, grammar, or cultural context!"

SaveInstruction ==
    "The user confirmed they want to save the word. You MUST call the save_word_pair "
    \o "tool with the source word and translation from the conversation (e.g. hello and hola). "
    \o "Your response must be EXACTLY the tool's return message and nothing else: "
    \o "if the tool says 'Done! I've added...' then output only that; "
    \o "if the tool says 'This word pair ... is already in your deck' then output only that. "
    \o "Do NOT repeat the translation, pronunciation, or any other explanation."

\* lines 289-292: both tools are built iff user_id and access_token are truthy
ToolsBuilt(uid, token) == Truthy(uid) /\ Truthy(token)

\* the fallback answering with an empty content instead of the raw text
RouterFallbackReply_EmptyContent(raw) ==
    [ role |-> "assistant",
      content |-> "",
      intent |-> "off_topic",
      word_card |-> None,
      actions |-> << >>,
      delegated_agent |-> None ]

\* lines 296-304: the reply when the router's output carries no decision
RouterFallbackReply(raw) ==
    [ role |-> "assistant",
      content |-> raw,
      intent |-> "off_topic",
      word_card |-> None,
      actions |-> << >>,
      delegated_agent |-> None ]

\* the override applied only to what the router sent to small talk
ApplyOverride_SmallTalkOnly(d, override) ==
    IF /\ Truthy(override)
       /\ d.allowed_domain
       /\ d.intent = "small_talk_language_related"
    THEN [ d EXCEPT !.intent = override, !.specialist_instruction = SaveInstruction ]
    ELSE d

\* lines 310-327: the confirmation override
ApplyOverride(d, override) ==
    IF /\ Truthy(override)
       /\ d.allowed_domain
       /\ d.intent \notin { "translation", "new_vocabulary" }
    THEN [ d EXCEPT !.intent = override, !.specialist_instruction = SaveInstruction ]
    ELSE d

\* "refusal_message is not None" in place of its truthiness
RefusalReply_NotNone(d) ==
    TutorMessage(IF d.refusal_message # None THEN d.refusal_message ELSE DefaultRefusal,
                 "off_topic", None, << >>, None)

\* lines 331-342: the refusal
RefusalReply(d) ==
    TutorMessage(IF Truthy(d.refusal_message) THEN d.refusal_message ELSE DefaultRefusal,
                 "off_topic", None, << >>, None)

\* line 346
IsSaveConfirmation(d) ==
    Contains(OrEmpty(d.specialist_instruction), "MUST call the save_word_pair")

\* the new_vocabulary branch missing: the request falls through to the tutor
SpecialistFor_NoVocabulary(intent) ==
    IF intent = "translation" THEN "TranslationCrew"
    ELSE "GenericTutorCrew"

\* lines 348, 368, 395: the crew class the final intent selects
SpecialistFor(intent) ==
    IF intent = "translation" THEN "TranslationCrew"
    ELSE IF intent = "new_vocabulary" THEN "VocabularyCrew"
    ELSE "GenericTutorCrew"

\* lines 349, 369, 395: the crew object; GenericTutorCrew takes no tools
BuildCrew(name, save, check) ==
    IF name = "GenericTutorCrew"
    THEN [ name |-> name, save_tool |-> FALSE, check_tool |-> FALSE ]
    ELSE [ name |-> name, save_tool |-> save, check_tool |-> check ]

\* a kickoff result: hasattr(result, "pydantic"), result.pydantic, str(result)
CrewOutput(has_pydantic, pydantic, raw) ==
    [ has_pydantic |-> has_pydantic, pydantic |-> pydantic, raw |-> raw ]

\* lines 351-366
TranslationReply(r, is_save) ==
    LET content == IF r.has_pydantic THEN r.pydantic.content ELSE r.raw
        cleaned == IF is_save /\ Truthy(content)
                   THEN _extract_save_tool_message_only(content)
                   ELSE _strip_offer_when_already_in_deck(OrEmpty(content))
    IN  TutorMessage(OrEmpty(cleaned), "translation", None, << >>, "Translation Agent")

\* lines 371-392
VocabularyReply(r, is_save) ==
    IF r.has_pydantic
    THEN LET out == [ r.pydantic EXCEPT !.delegated_agent = "Vocabulary Agent" ]
         IN  IF is_save
             THEN [ out EXCEPT
                      !.content = IF Truthy(out.content)
                                  THEN _extract_save_tool_message_only(out.content)
                                  ELSE out.content,
                      !.word_card = None ]
             ELSE [ out EXCEPT
                      !.content = IF Truthy(out.content)
                                  THEN _strip_offer_when_already_in_deck(out.content)
                                  ELSE out.content ]
    ELSE TutorMessage(IF is_save
                      THEN _extract_save_tool_message_only(r.raw)
                      ELSE r.raw,
                      "new_vocabulary", None, << >>, "Vocabulary Agent")

\* the fallback labelled with the agent's name in place of the intent
GenericReply_AgentAsIntent(r, d) ==
    IF r.has_pydantic
    THEN [ r.pydantic EXCEPT !.delegated_agent = "Language Tutor" ]
    ELSE TutorMessage(r.raw, "generic", None, << >>, "Language Tutor")

\* lines 395-406
GenericReply(r, d) ==
    IF r.has_pydantic
    THEN [ r.pydantic EXCEPT !.delegated_agent = "Language Tutor" ]
    ELSE TutorMessage(r.raw, d.intent, None, << >>, "Language Tutor")

-----------------------------------------------------------------------------
(* Inputs: the arguments of a call and what the crews (LLM calls) answer *)

Msg(role, content) == [ role |-> role, content |-> content ]

TranslationOffer ==
    "Hola means hello. Would you like me to save this word to your flashcard deck?"
VocabularyOffer ==
    "Here is a new word: gato (cat). Shall I add it to your Flashcards?"

RouterConversations ==
    { << Msg("user", "How do you say cat in Spanish?") >>,
      << Msg("assistant", TranslationOffer), Msg("user", "Yes, save it!") >>,
      << Msg("assistant", VocabularyOffer), Msg("user", " sure ") >>,
      << Msg("assistant", TranslationOffer), Msg("user", "What about dog?"),
         Msg("user", "ok") >>,
      << Msg("user", "Explain the subjunctive"),
         Msg("assistant", "It expresses doubt or wishes."), Msg("user", "yes") >> }

UserIds == { None, "user-1" }
AccessTokens == { None, "", "jwt" }

RouterRawOutputs == { "", "I could not classify this request." }

RouterInstructions ==
    { "Answer the learner's question briefly.",
      "You MUST call the save_word_pair tool for this pair." }

RefusalMessages == { None, "", "Sorry, I can only help with language learning." }

RouterDecisions ==
    { RouterDecision(i, a, s, m) :
        i \in IntentType, a \in BOOLEAN, s \in RouterInstructions, m \in RefusalMessages }

SpecialistContents ==
    { "",
      TranslationOffer,
      "Sure! Done! I've added 'hello' -> 'hola' to your flashcard deck. "
        \o "You'll see it in your next practice session. Anything else?",
      "Hola means hello. Would you like me to save this word to your flashcard deck? "
        \o "This word pair ('hello' -> 'hola') is already in your deck. "
        \o "No duplicate was created." }

TranslationResults ==
    { CrewOutput(TRUE, TranslationOutput(c), "") : c \in SpecialistContents }
    \cup { CrewOutput(FALSE, TranslationOutput(""), c) : c \in SpecialistContents }

CardsAndActions == { << None, << >> >>, << "card:gato", << "add_to_flashcards" >> >> }

TutorMessageResults ==
    { CrewOutput(TRUE, TutorMessage(c, i, ca[1], ca[2], None), "") :
        c \in SpecialistContents,
        i \in { "new_vocabulary", "grammar_explanation" },
        ca \in CardsAndActions }
    \cup { CrewOutput(FALSE, TutorMessage("", "off_topic", None, << >>, None), c) :
             c \in SpecialistContents }

-----------------------------------------------------------------------------
(* The request handler as a state machine: one action per stretch of       *)
(* run_tutor_router between two awaits                                      *)

NotComputed == "<not computed>"
NoDecision == RouterDecision("<none>", FALSE, "", None)
NoCrew == [ name |-> "<none>", save_tool |-> FALSE, check_tool |-> FALSE ]
NoOutput == CrewOutput(FALSE, TranslationOutput(""), "")
NoResult == [ role |-> "<no result>" ]

\* callers of the save tool, each with at most one call in progress
MaxCallers == 2
Callers == 1..MaxCallers

\* no call of SaveWordPairTool._run in progress
NoCall ==
    [ pc |-> "idle", _user_id |-> None, source_word |-> None,
      translated_word |-> None, source |-> "", translated |-> "",
      existing |-> << >>, before |-> << >>, raised |-> FALSE, ret |-> None ]

\* the save tool not in use, the table empty
StoreIdle ==
    /\ deck = << >>
    /\ _run = [ p \in Callers |-> NoCall ]

\* the voice agent's job not yet started
VoiceIdle ==
    /\ entry_pc = "load"
    /\ word_pairs = << >>
    /\ session_started = FALSE
    /\ connected = FALSE
    /\ rpc_registered = FALSE
    /\ replies = << >>
    /\ rpc_log = << >>

NoRequest == [ user |-> [ id |-> None ], auth_token |-> None ]
NoResponse == [ status |-> 0 ]

\* no request to /api/tutor-chat
HttpIdle ==
    /\ http_pc = "idle"
    /\ auth_header = None
    /\ data = JNull
    /\ request = NoRequest
    /\ response = NoResponse
    /\ http_log = << >>

\* the other parts of the program at rest
ExtIdle == StoreIdle /\ VoiceIdle /\ HttpIdle

Idle ==
    /\ save_tool = FALSE
    /\ check_tool = FALSE
    /\ router_result = NoOutput
    /\ decision = NoDecision
    /\ override_intent = NotComputed
    /\ crew = NoCrew
    /\ specialist_result = NoOutput
    /\ result = NoResult
    /\ is_save_confirmation = FALSE
    /\ calls = << >>
    /\ ret = ""

Init ==
    /\ pc = "start"
    /\ messages \in RouterConversations
    /\ user_id \in UserIds
    /\ access_token \in AccessTokens
    /\ arg = ""
    /\ Idle
    /\ ExtIdle

\* lines 281-295: build the tools, kick off the router
Call ==
    /\ pc = "start"
    /\ save_tool' = ToolsBuilt(user_id, access_token)
    /\ check_tool' = ToolsBuilt(user_id, access_token)
    /\ calls' = Append(calls, "RouterCrew")
    /\ pc' = "await_router"
    /\ UNCHANGED <<ext, messages, user_id, access_token, router_result, decision,
                   override_intent, crew, specialist_result, result,
                   is_save_confirmation, arg, ret>>

\* lines 296-304: the router's output is not structured
RouterReturnsText ==
    /\ pc = "await_router"
    /\ \E raw \in RouterRawOutputs :
          /\ router_result' = CrewOutput(FALSE, NoDecision, raw)
          /\ result' = RouterFallbackReply(raw)
    /\ pc' = "done"
    /\ UNCHANGED <<ext, messages, user_id, access_token, save_tool, check_tool,
                   decision, override_intent, crew, specialist_result,
                   is_save_confirmation, calls, arg, ret>>

\* lines 305-342: decision, override, refusal
Refuse ==
    /\ pc = "await_router"
    /\ override_intent' = _detect_save_confirmation_and_override_intent(messages)
    /\ \E d \in RouterDecisions :
          LET final == ApplyOverride(d, override_intent')
          IN  /\ ~final.allowed_domain
              /\ router_result' = CrewOutput(TRUE, d, "")
              /\ decision' = final
              /\ result' = RefusalReply(final)
    /\ pc' = "done"
    /\ UNCHANGED <<ext, messages, user_id, access_token, save_tool, check_tool, crew,
                   specialist_result, is_save_confirmation, calls, arg, ret>>

\* lines 305-327 and 344-350 / 368-370 / 395: decision, override, kick off
\* the specialist
Delegate ==
    /\ pc = "await_router"
    /\ override_intent' = _detect_save_confirmation_and_override_intent(messages)
    /\ \E d \in RouterDecisions :
          LET final == ApplyOverride(d, override_intent')
              c == BuildCrew(SpecialistFor(final.intent), save_tool, check_tool)
          IN  /\ final.allowed_domain
              /\ router_result' = CrewOutput(TRUE, d, "")
              /\ decision' = final
              /\ is_save_confirmation' = IsSaveConfirmation(final)
              /\ crew' = c
              /\ calls' = Append(calls, c.name)
    /\ pc' = "await_specialist"
    /\ UNCHANGED <<ext, messages, user_id, access_token, save_tool, check_tool,
                   specialist_result, result, arg, ret>>

\* lines 350-366
TranslationReturns ==
    /\ pc = "await_specialist"
    /\ crew.name = "TranslationCrew"
    /\ \E r \in TranslationResults :
          /\ specialist_result' = r
          /\ result' = TranslationReply(r, is_save_confirmation)
    /\ pc' = "done"
    /\ UNCHANGED <<ext, messages, user_id, access_token, save_tool, check_tool,
                   router_result, decision, override_intent, crew,
                   is_save_confirmation, calls, arg, ret>>

\* lines 370-392
VocabularyReturns ==
    /\ pc = "await_specialist"
    /\ crew.name = "VocabularyCrew"
    /\ \E r \in TutorMessageResults :
          /\ specialist_result' = r
          /\ result' = VocabularyReply(r, is_save_confirmation)
    /\ pc' = "done"
    /\ UNCHANGED <<ext, messages, user_id, access_token, save_tool, check_tool,
                   router_result, decision, override_intent, crew,
                   is_save_confirmation, calls, arg, ret>>

\* lines 395-406
GenericReturns ==
    /\ pc = "await_specialist"
    /\ crew.name = "GenericTutorCrew"
    /\ \E r \in TutorMessageResults :
          /\ specialist_result' = r
          /\ result' = GenericReply(r, decision)
    /\ pc' = "done"
    /\ UNCHANGED <<ext, messages, user_id, access_token, save_tool, check_tool,
                   router_result, decision, override_intent, crew,
                   is_save_confirmation, calls, arg, ret>>

\* lines 295, 350, 370, 395: an awaited kickoff raises and the exception
\* leaves run_tutor_router
KickoffRaises ==
    /\ pc \in { "await_router", "await_specialist" }
    /\ pc' = "raised"
    /\ UNCHANGED <<ext, messages, user_id, access_token, save_tool, check_tool,
                   router_result, decision, override_intent, crew,
                   specialist_result, result, is_save_confirmation, calls,
                   arg, ret>>

Next ==
    \/ Call
    \/ RouterReturnsText
    \/ Refuse
    \/ Delegate
    \/ TranslationReturns
    \/ VocabularyReturns
    \/ GenericReturns
    \/ KickoffRaises

Spec == Init /\ [][Next]_vars

-----------------------------------------------------------------------------
(* Properties of run_tutor_router, checked under Spec *)

\* the router returned a structured decision (line 305 was reached)
RouterDecided == router_result.has_pydantic

\* the router's own decision, before the override
RouterOwn == router_result.pydantic

\* the override of lines 310-327 replaced the router's decision
Overridden == RouterDecided /\ decision # RouterOwn

DetectorMatched == override_intent \in { "translation", "new_vocabulary" }

\* content as the specialist produced it (lines 351-354, 373, 382, 397, 401)
SpecialistContent ==
    IF specialist_result.has_pydantic
    THEN specialist_result.pydantic.content
    ELSE specialist_result.raw

MessageFields == { "role", "content", "intent", "word_card", "actions", "delegated_agent" }

\* C1: an in-domain request on which the confirmation detector returns an
\* intent is dispatched to the Translation or the Vocabulary crew, never to
\* the generic tutor, whatever intent the router chose.
C1_OverrideNeverGeneric ==
    (RouterDecided /\ RouterOwn.allowed_domain /\ DetectorMatched)
        => /\ crew.name \in { "TranslationCrew", "VocabularyCrew" }
           /\ calls = << "RouterCrew", crew.name >>
           /\ pc = "done" =>
                result.delegated_agent \in { "Translation Agent", "Vocabulary Agent" }

C1_Witness ==
    /\ pc = "done"
    /\ RouterOwn.allowed_domain
    /\ RouterOwn.intent = "grammar_explanation"
    /\ override_intent = "new_vocabulary"
    /\ crew.name = "VocabularyCrew"
    /\ result.delegated_agent = "Vocabulary Agent"

\* C2: whenever the override replaced the router's intent, the specialist
\* crew handling the request was built with a save_word_pair tool, for every
\* combination of user_id and access_token.
C2_OverriddenCrewHasSaveTool ==
    Overridden => crew.save_tool

\* C3: a request the router declares out of domain reaches no specialist,
\* even when the detector matches, and is answered with intent off_topic, no
\* agent, no card, no actions and the router's refusal_message if non-empty,
\* the default refusal text otherwise.
C3_RefusalWithoutSpecialist ==
    (RouterDecided /\ ~RouterOwn.allowed_domain)
        => /\ pc = "done"
           /\ crew = NoCrew
           /\ calls = << "RouterCrew" >>
           /\ result =
                [ role |-> "assistant",
                  content |-> IF RouterOwn.refusal_message \notin { None, "" }
                              THEN RouterOwn.refusal_message
                              ELSE DefaultRefusal,
                  intent |-> "off_topic",
                  word_card |-> None,
                  actions |-> << >>,
                  delegated_agent |-> None ]

C3_Witness ==
    /\ pc = "done"
    /\ RouterDecided
    /\ ~RouterOwn.allowed_domain
    /\ RouterOwn.intent = "grammar_explanation"
    /\ DetectorMatched
    /\ RouterOwn.refusal_message = ""
    /\ result.content = DefaultRefusal

\* C4: every returned value has exactly the fields of the common message
\* shape, role "assistant" and one of the seven intents.
C4_CommonShape ==
    pc = "done"
        => /\ DOMAIN result = MessageFields
           /\ result.role = "assistant"
           /\ result.intent \in IntentType

C4_Witness ==
    /\ pc = "done"
    /\ crew.name = "GenericTutorCrew"
    /\ ~specialist_result.has_pydantic
    /\ result.intent = "cultural_context"
    /\ result.content = specialist_result.raw

\* C5: the router is kicked off first and once; an in-domain request then
\* kicks off exactly one specialist, the one the final intent selects, and
\* the reply names that specialist; no specialist starts before the router
\* returned a decision.
C5_OneRouterThenOneSpecialist ==
    /\ Len(calls) <= 2
    /\ pc # "start" => calls[1] = "RouterCrew"
    /\ Len(calls) = 2 => RouterDecided /\ RouterOwn.allowed_domain
    /\ (RouterDecided /\ RouterOwn.allowed_domain) =>
          /\ decision.intent = "translation" =>
                /\ calls = << "RouterCrew", "TranslationCrew" >>
                /\ pc = "done" => result.delegated_agent = "Translation Agent"
          /\ decision.intent = "new_vocabulary" =>
                /\ calls = << "RouterCrew", "VocabularyCrew" >>
                /\ pc = "done" => result.delegated_agent = "Vocabulary Agent"
          /\ decision.intent \notin { "translation", "new_vocabulary" } =>
                /\ calls = << "RouterCrew", "GenericTutorCrew" >>
                /\ pc = "done" => result.delegated_agent = "Language Tutor"

C5_Witness ==
    /\ pc = "done"
    /\ Overridden
    /\ decision.intent = "new_vocabulary"
    /\ calls = << "RouterCrew", "VocabularyCrew" >>
    /\ result.delegated_agent = "Vocabulary Agent"

\* C9: a reply of the translation or the vocabulary branch is the
\* specialist's content passed through exactly one sanitizer, the extractor
\* for a save confirmation and the offer stripper otherwise, for structured
\* and unstructured output alike; a reply of the generic branch is the
\* specialist's content unchanged.
C9_OneSanitizerPerBranch ==
    (pc = "done" /\ crew # NoCrew)
        => result.content =
              IF crew.name = "GenericTutorCrew" THEN SpecialistContent
              ELSE IF is_save_confirmation
              THEN _extract_save_tool_message_only(SpecialistContent)
              ELSE _strip_offer_when_already_in_deck(SpecialistContent)

-----------------------------------------------------------------------------
(* The sanitizers and the detector called on their own *)

\* every text made of at most n of the given parts
RECURSIVE Texts(_, _)
Texts(parts, n) ==
    IF n = 0 THEN { "" }
    ELSE LET shorter == Texts(parts, n - 1)
         IN  shorter \cup { t \o p : t \in shorter, p \in parts }

\* every sequence of at most n of the given elements
RECURSIVE SeqsUpTo(_, _)
SeqsUpTo(S, n) ==
    IF n = 0 THEN { << >> }
    ELSE LET shorter == SeqsUpTo(S, n - 1)
         IN  shorter \cup { Append(q, x) : q \in shorter, x \in S }

MaxExtractParts == 3
MaxStripParts == 3
MaxMessages == 3

ExtractParts ==
    { DoneMarker,
      " 'hello' -> 'hola' to your flashcard deck. ",
      DoneEndPhrase,
      ThisWordPair,
      " ('hello' -> 'hola') is ",
      AlreadyInDeck,
      ". ",
      DupEndPhrase,
      " ",
      "Hola means hello." }

StripParts ==
    { OfferPhrases[1], OfferPhrases[2], OfferPhrases[3],
      "Would you like me to save this  word to your flashcard deck?",
      "Would you like me to add this ",
      "to your flashcard deck?",
      AlreadyInDeck,
      " ",
      ". ",
      "Hola means hello." }

MessagePool ==
    { Msg("user", "Yes, save it!"),
      Msg("user", "What about dog?"),
      Msg("user", "no, don't save it"),
      Msg("user", "yes please save that word for me now"),
      Msg("assistant", TranslationOffer),
      Msg("assistant", VocabularyOffer),
      Msg("assistant", "Shall I save this Vocabulary item to your flashcards?"),
      Msg("assistant", "It expresses doubt or wishes."),
      Msg("system", "You are a language tutor.") }

\* run_tutor_router not running
RouterIdle(p, m, a) ==
    /\ pc = p
    /\ messages = m
    /\ user_id = None
    /\ access_token = None
    /\ arg = a
    /\ Idle

PureInit(p, m, a) == RouterIdle(p, m, a) /\ ExtIdle

InitExtract == \E a \in Texts(ExtractParts, MaxExtractParts) : PureInit("call", << >>, a)

\* a call of _extract_save_tool_message_only(arg)
Extract ==
    /\ pc = "call"
    /\ ret' = _extract_save_tool_message_only(arg)
    /\ pc' = "returned"
    /\ UNCHANGED <<ext, messages, user_id, access_token, save_tool, check_tool,
                   router_result, decision, override_intent, crew,
                   specialist_result, result, is_save_confirmation, calls, arg>>

SpecExtract == InitExtract /\ [][Extract]_vars

InitStrip == \E a \in Texts(StripParts, MaxStripParts) : PureInit("call", << >>, a)

\* a call of _strip_offer_when_already_in_deck(arg)
StripOffer ==
    /\ pc = "call"
    /\ ret' = _strip_offer_when_already_in_deck(arg)
    /\ pc' = "returned"
    /\ UNCHANGED <<ext, messages, user_id, access_token, save_tool, check_tool,
                   router_result, decision, override_intent, crew,
                   specialist_result, result, is_save_confirmation, calls, arg>>

SpecStrip == InitStrip /\ [][StripOffer]_vars

InitDetect == \E m \in SeqsUpTo(MessagePool, MaxMessages) : PureInit("call", m, "")

\* a call of _detect_save_confirmation_and_override_intent(messages)
Detect ==
    /\ pc = "call"
    /\ override_intent' = _detect_save_confirmation_and_override_intent(messages)
    /\ pc' = "returned"
    /\ UNCHANGED <<ext, messages, user_id, access_token, save_tool, check_tool,
                   router_result, decision, crew, specialist_result, result,
                   is_save_confirmation, calls, arg, ret>>

SpecDetect == InitDetect /\ [][Detect]_vars

-----------------------------------------------------------------------------
(* Properties of _extract_save_tool_message_only, checked under SpecExtract *)

\* position of the last character of s that is no whitespace, 0 if none
LastInk(s) ==
    LET ink == { i \in 1..Len(s) : CharAt(s, i) \notin WhiteChars }
    IN  IF ink = {} THEN 0 ELSE Max(ink)

\* i is the first position >= from where p occurs in s
FirstOccurrence(s, p, from, i) ==
    /\ i >= from
    /\ MatchAt(s, p, i)
    /\ \A k \in from..(i - 1) : ~MatchAt(s, p, k)

\* p occurs in s at some position >= from
OccursFrom(s, p, from) == \E i \in from..Len(s) : MatchAt(s, p, i)

\* C6 as stated: for content holding the success marker the result is the
\* part of content from the first marker to the end of the first following
\* end phrase, and to the very end of content when no end phrase follows.
C6_SuccessSliceToEnd ==
    (pc = "returned" /\ OccursFrom(arg, DoneMarker, 1))
        => \E i \in 1..Len(arg) :
              /\ FirstOccurrence(arg, DoneMarker, 1, i)
              /\ IF OccursFrom(arg, DoneEndPhrase, i)
                 THEN \E j \in i..Len(arg) :
                         /\ FirstOccurrence(arg, DoneEndPhrase, i, j)
                         /\ ret = SubSeq(arg, i, j + Len(DoneEndPhrase) - 1)
                 ELSE ret = SubSeq(arg, i, Len(arg))

\* C6 amended: as above, but when no end phrase follows, the result runs to
\* the last character of content that is no whitespace.
C6_SuccessSlice ==
    (pc = "returned" /\ OccursFrom(arg, DoneMarker, 1))
        => \E i \in 1..Len(arg) :
              /\ FirstOccurrence(arg, DoneMarker, 1, i)
              /\ IF OccursFrom(arg, DoneEndPhrase, i)
                 THEN \E j \in i..Len(arg) :
                         /\ FirstOccurrence(arg, DoneEndPhrase, i, j)
                         /\ ret = SubSeq(arg, i, j + Len(DoneEndPhrase) - 1)
                 ELSE ret = SubSeq(arg, i, LastInk(arg))

C6_Witness ==
    /\ pc = "returned"
    /\ arg = "Hola means hello." \o DoneMarker \o " "
    /\ ret = DoneMarker

DuplicateNotice(s) == OccursFrom(s, AlreadyInDeck, 1) \/ OccursFrom(s, NoDuplicate, 1)

\* s is a part of content that begins at the first "This word pair"
SliceFromThisWordPair(content, s) ==
    \E i \in 1..Len(content) :
       /\ FirstOccurrence(content, ThisWordPair, 1, i)
       /\ \E j \in i..Len(content) : s = SubSeq(content, i, j)

\* C7 as stated: for content with a duplicate notice and no success marker
\* the result starts with "This word pair" and holds nothing of what
\* precedes the tool message; with both the success marker and a duplicate
\* notice, the success message is kept.
C7_DuplicateSliceAlways ==
    pc = "returned" =>
        /\ (DuplicateNotice(arg) /\ ~OccursFrom(arg, DoneMarker, 1))
              => StartsWith(ret, ThisWordPair) /\ SliceFromThisWordPair(arg, ret)
        /\ (DuplicateNotice(arg) /\ OccursFrom(arg, DoneMarker, 1))
              => StartsWith(ret, DoneMarker)

\* C7 amended: the same, for content that also contains "This word pair";
\* content with a duplicate notice, no success marker and no
\* "This word pair" is returned unchanged.
C7_DuplicateSlice ==
    pc = "returned" =>
        /\ (DuplicateNotice(arg) /\ ~OccursFrom(arg, DoneMarker, 1)
              /\ OccursFrom(arg, ThisWordPair, 1))
              => StartsWith(ret, ThisWordPair) /\ SliceFromThisWordPair(arg, ret)
        /\ (DuplicateNotice(arg) /\ ~OccursFrom(arg, DoneMarker, 1)
              /\ ~OccursFrom(arg, ThisWordPair, 1))
              => ret = arg
        /\ (DuplicateNotice(arg) /\ OccursFrom(arg, DoneMarker, 1))
              => StartsWith(ret, DoneMarker)

C7_Witness ==
    /\ pc = "returned"
    /\ arg = "Hola means hello." \o ThisWordPair \o AlreadyInDeck
    /\ ret = ThisWordPair \o AlreadyInDeck

-----------------------------------------------------------------------------
(* Property of _strip_offer_when_already_in_deck, checked under SpecStrip *)

\* C8: for content containing "already in your deck" the result contains
\* none of the three offer sentences and still contains "already in your
\* deck".
C8_NoOfferLeft ==
    (pc = "returned" /\ OccursFrom(arg, AlreadyInDeck, 1))
        => /\ \A k \in 1..Len(OfferPhrases) : ~OccursFrom(ret, OfferPhrases[k], 1)
           /\ OccursFrom(ret, AlreadyInDeck, 1)

-----------------------------------------------------------------------------
(* Properties of the confirmation detector, checked under SpecDetect *)

Returned == pc = "returned"

ReturnedIntent == Returned /\ override_intent \in { "translation", "new_vocabulary" }

\* the text of message i offers to save: lower-cased it contains "flashcard"
\* and one of "save", "add"
OffersToSave(m) ==
    LET text == Lower(m.content)
    IN  /\ OccursFrom(text, "flashcard", 1)
        /\ OccursFrom(text, "save", 1) \/ OccursFrom(text, "add", 1)

\* C10 as stated: an intent is returned only when the message right before
\* the final user message is an assistant message offering to save.
C10_OfferImmediatelyBefore ==
    ReturnedIntent
        => /\ Len(messages) >= 2
           /\ messages[Len(messages)].role = "user"
           /\ messages[Len(messages) - 1].role = "assistant"
           /\ OffersToSave(messages[Len(messages) - 1])

\* C10 amended: an intent is returned only when the final message is a user
\* message and the most recent assistant message of the conversation,
\* adjacent to it or not, offers to save.
C10_OfferInLastAssistantMessage ==
    ReturnedIntent
        => /\ Len(messages) >= 2
           /\ messages[Len(messages)].role = "user"
           /\ \E i \in 1..(Len(messages) - 1) :
                 /\ messages[i].role = "assistant"
                 /\ \A j \in (i + 1)..Len(messages) : messages[j].role # "assistant"
                 /\ OffersToSave(messages[i])

C10_Witness ==
    /\ ReturnedIntent
    /\ Len(messages) = 3
    /\ messages[1].role = "assistant"
    /\ messages[2].role = "system"
    /\ messages[3].role = "user"

\* the final message of the conversation
LastMessage == messages[Len(messages)]

\* a reply that declines: its normalised text is "no" or begins with "no"
\* followed by a comma or a space
Declines(reply) == reply = "no" \/ StartsWith(reply, "no,") \/ StartsWith(reply, "no ")

\* C11: when the final user message declines the offer (a short negative
\* reply that merely contains one of the keywords), the detector returns None.
C11_DeclineReturnsNone ==
    (Returned /\ Len(messages) >= 1 /\ LastMessage.role = "user"
       /\ Declines(NormalizeReply(LastMessage.content)))
        => override_intent = None

\* i is the position of the most recent assistant message
MostRecentAssistant(i) ==
    /\ i \in 1..Len(messages)
    /\ messages[i].role = "assistant"
    /\ \A j \in (i + 1)..Len(messages) : messages[j].role # "assistant"

\* the text of message m, lower-cased, names a new word or vocabulary
NamesVocabulary(m) ==
    LET text == Lower(m.content)
    IN  OccursFrom(text, "new word", 1) \/ OccursFrom(text, "vocabulary", 1)

\* C17: the detector returns None, "translation" or "new_vocabulary"; None
\* for fewer than two messages or a last message that is not the user's; a
\* returned intent is "new_vocabulary" exactly when the most recent assistant
\* message, lower-cased, contains "new word" or "vocabulary", and
\* "translation" otherwise.
C17_DetectorResult ==
    Returned =>
        /\ override_intent \in { None, "translation", "new_vocabulary" }
        /\ Len(messages) < 2 => override_intent = None
        /\ (Len(messages) >= 1 /\ LastMessage.role # "user") => override_intent = None
        /\ ReturnedIntent =>
              \E i \in 1..Len(messages) :
                 /\ MostRecentAssistant(i)
                 /\ override_intent =
                       IF NamesVocabulary(messages[i]) THEN "new_vocabulary"
                       ELSE "translation"

C17_Witness ==
    /\ Returned
    /\ override_intent = "new_vocabulary"
    /\ Len(messages) = 2
    /\ ~OccursFrom(Lower(messages[1].content), "new word", 1)
    /\ OccursFrom(Lower(messages[1].content), "vocabulary", 1)

\* C19: a reply whose normalised text is longer than 25 characters never
\* yields an intent, in any conversation.
C19_LongReplyReturnsNone ==
    /\ \A p \in _SAVE_CONFIRMATION_PHRASES : Len(p) <= MaxKeywordReplyLen
    /\ (Returned /\ Len(messages) >= 1
          /\ Len(NormalizeReply(LastMessage.content)) > MaxKeywordReplyLen)
           => override_intent = None

C19_Witness ==
    /\ Returned
    /\ override_intent = None
    /\ Len(messages) = 2
    /\ messages[1] = Msg("assistant", TranslationOffer)
    /\ LastMessage.role = "user"
    /\ Len(NormalizeReply(LastMessage.content)) > MaxKeywordReplyLen
    /\ Len(NormalizeReply(LastMessage.content)) <= MaxConfirmationLen
    /\ OccursFrom(NormalizeReply(LastMessage.content), "save", 1)

-----------------------------------------------------------------------------
(* run_tutor_router: the save confirmation and the router's fallback *)

\* C16: the reply to an in-domain request whose final user message the
\* detector recognised as a save confirmation is the specialist's content
\* passed through _extract_save_tool_message_only, whether the intent came
\* from the override or from the router itself.
C16_ConfirmationReplyExtracted ==
    (pc = "done" /\ RouterDecided /\ RouterOwn.allowed_domain /\ DetectorMatched)
        => result.content = _extract_save_tool_message_only(SpecialistContent)

\* C18: a router result without a structured decision is answered at once:
\* intent "off_topic", the raw text as content, no word card, no actions, no
\* delegated agent; the detector has not run and no specialist was built or
\* kicked off.
C18_FallbackWithoutSpecialist ==
    (pc = "done" /\ ~RouterDecided)
        => /\ result = [ role |-> "assistant",
                         content |-> router_result.raw,
                         intent |-> "off_topic",
                         word_card |-> None,
                         actions |-> << >>,
                         delegated_agent |-> None ]
           /\ override_intent = NotComputed
           /\ decision = NoDecision
           /\ crew = NoCrew
           /\ specialist_result = NoOutput
           /\ calls = << "RouterCrew" >>

C18_Witness ==
    /\ pc = "done"
    /\ ~RouterDecided
    /\ router_result.raw # ""
    /\ result.content = router_result.raw
    /\ _detect_save_confirmation_and_override_intent(messages) # None

\* C20: once the specialist has been chosen, the request is handled as a
\* save confirmation exactly when the override replaced the router's
\* decision in this call.
C20_SaveConfirmationIffOverridden ==
    (RouterDecided /\ crew # NoCrew) => (is_save_confirmation <=> Overridden)

-----------------------------------------------------------------------------
(* SaveWordPairTool._run of tools/save_word_pair.py and the table          *)
(* word_pairs it reads and writes.  A caller's frame remembers the deck as *)
(* it was when the call began (before) and whether the store raised.       *)

Row(uid, w1, w2) == [ user_id |-> uid, word1 |-> w1, word2 |-> w2 ]

\* line 53
CannotSave == "Cannot save: both source_word and translated_word are required."

\* lines 71-74
AlreadyInDeckMessage(source, translated) ==
    "This word pair ('" \o source \o "' → '" \o translated
        \o "') is already in your deck. " \o "No duplicate was created."

\* lines 84-87
DoneMessage(source, translated) ==
    "Done! I've added '" \o source \o "' → '" \o translated
        \o "' to your flashcard deck. " \o "You'll see it in your next practice session."

\* line 90
FailedMessage(e) == "Failed to save the word pair: " \o e

\* lines 50-51: (word or "").strip()
Trimmed(word) == Strip(OrEmpty(word))

\* lines 57-62: the rows of the table whose user_id is uid
SelectRows(rows, uid) == SelectSeq(rows, LAMBDA r : r.user_id = uid)

\* the comparison of lines 67-70 without lower()
IsDuplicate_CaseSensitive(existing, source, translated) ==
    \E i \in 1..Len(existing) :
       /\ OrEmpty(existing[i].word1) = source
       /\ OrEmpty(existing[i].word2) = translated

\* lines 63-70: one of the selected rows holds the pair, case-insensitively
IsDuplicate(existing, source, translated) ==
    \E i \in 1..Len(existing) :
       /\ Lower(OrEmpty(existing[i].word1)) = Lower(source)
       /\ Lower(OrEmpty(existing[i].word2)) = Lower(translated)

\* the arguments of the calls and the states of the table at the start
ToolUsers == { "user-1", "user-2" }
SourceWords == { None, " ", "cat", " Cat ", "dog" }
TranslatedWords == { "", "gato", "Gato " }
StoreErrors == { "connection reset" }
InitialDecks ==
    { << >>,
      << Row("user-1", "cat", "gato") >>,
      << Row("user-2", None, "gato"), Row("user-1", "Dog", "Gato") >> }

\* the frame of caller p after lines 50-51
Entered(uid, sw, tw) ==
    [ NoCall EXCEPT !._user_id = uid, !.source_word = sw, !.translated_word = tw,
                    !.source = Trimmed(sw), !.translated = Trimmed(tw),
                    !.before = deck ]

\* what is left alone by the save tool
nonStore == <<routerVars, voiceVars, httpVars>>

\* lines 50-53: a word is blank
SaveRejectsBlank(p) ==
    /\ _run[p].pc = "idle"
    /\ \E uid \in ToolUsers, sw \in SourceWords, tw \in TranslatedWords :
          /\ Trimmed(sw) = "" \/ Trimmed(tw) = ""
          /\ _run' = [ _run EXCEPT ![p] =
                         [ Entered(uid, sw, tw) EXCEPT !.pc = "returned",
                                                       !.ret = CannotSave ] ]
    /\ UNCHANGED <<nonStore, deck>>

\* lines 50-62: the select returns the user's rows
SaveSelects(p) ==
    /\ _run[p].pc = "idle"
    /\ \E uid \in ToolUsers, sw \in SourceWords, tw \in TranslatedWords :
          /\ Trimmed(sw) # "" /\ Trimmed(tw) # ""
          /\ _run' = [ _run EXCEPT ![p] =
                         [ Entered(uid, sw, tw) EXCEPT !.pc = "selected",
                                                       !.existing = SelectRows(deck, uid) ] ]
    /\ UNCHANGED <<nonStore, deck>>

\* lines 50-62 and 89-90: the select raises
SaveSelectRaises(p) ==
    /\ _run[p].pc = "idle"
    /\ \E uid \in ToolUsers, sw \in SourceWords, tw \in TranslatedWords, e \in StoreErrors :
          /\ Trimmed(sw) # "" /\ Trimmed(tw) # ""
          /\ _run' = [ _run EXCEPT ![p] =
                         [ Entered(uid, sw, tw) EXCEPT !.pc = "returned",
                                                       !.raised = TRUE,
                                                       !.ret = FailedMessage(e) ] ]
    /\ UNCHANGED <<nonStore, deck>>

\* lines 63-74: the pair is among the selected rows
SaveFindsDuplicate(p) ==
    /\ _run[p].pc = "selected"
    /\ IsDuplicate(_run[p].existing, _run[p].source, _run[p].translated)
    /\ _run' = [ _run EXCEPT ![p].pc = "returned",
                             ![p].ret = AlreadyInDeckMessage(_run[p].source, _run[p].translated) ]
    /\ UNCHANGED <<nonStore, deck>>

\* lines 63-87: the pair is not among the selected rows, the insert succeeds
SaveInserts(p) ==
    /\ _run[p].pc = "selected"
    /\ ~IsDuplicate(_run[p].existing, _run[p].source, _run[p].translated)
    /\ deck' = Append(deck, Row(_run[p]._user_id, _run[p].source, _run[p].translated))
    /\ _run' = [ _run EXCEPT ![p].pc = "returned",
                             ![p].ret = DoneMessage(_run[p].source, _run[p].translated) ]
    /\ UNCHANGED nonStore

\* lines 63-82 and 89-90: the insert raises
SaveInsertRaises(p) ==
    /\ _run[p].pc = "selected"
    /\ ~IsDuplicate(_run[p].existing, _run[p].source, _run[p].translated)
    /\ \E e \in StoreErrors :
          _run' = [ _run EXCEPT ![p].pc = "returned",
                                ![p].raised = TRUE,
                                ![p].ret = FailedMessage(e) ]
    /\ UNCHANGED <<nonStore, deck>>

\* the caller has taken the returned string; its frame is gone
SaveExits(p) ==
    /\ _run[p].pc = "returned"
    /\ _run' = [ _run EXCEPT ![p] = NoCall ]
    /\ UNCHANGED <<nonStore, deck>>

\* no other caller has a call in progress
OthersIdle(p) == \A q \in Callers \ { p } : _run[q].pc = "idle"

InitSave ==
    /\ RouterIdle("idle", << >>, "")
    /\ VoiceIdle
    /\ HttpIdle
    /\ deck \in InitialDecks
    /\ _run = [ p \in Callers |-> NoCall ]

\* save calls one after the other
NextSave ==
    \E p \in Callers :
       /\ OthersIdle(p)
       /\ \/ SaveRejectsBlank(p)
          \/ SaveSelects(p)
          \/ SaveSelectRaises(p)
          \/ SaveFindsDuplicate(p)
          \/ SaveInserts(p)
          \/ SaveInsertRaises(p)
          \/ SaveExits(p)

SpecSave == InitSave /\ [][NextSave]_vars

\* one call per caller, the callers' steps interleaved in any order: the
\* select (lines 57-62) and the insert (line 82) are separate requests to
\* the store, and nothing in _run holds the table between them
NextSaveConcurrent ==
    \E p \in Callers :
       \/ SaveRejectsBlank(p)
       \/ SaveSelects(p)
       \/ SaveSelectRaises(p)
       \/ SaveFindsDuplicate(p)
       \/ SaveInserts(p)
       \/ SaveInsertRaises(p)

SpecSaveConcurrent == InitSave /\ [][NextSaveConcurrent]_vars

-----------------------------------------------------------------------------
(* Properties of SaveWordPairTool._run, checked under SpecSave *)

\* rows a and b are of one user and hold the same pair, case-insensitively
SameEntry(a, b) ==
    /\ a.user_id = b.user_id
    /\ Lower(OrEmpty(a.word1)) = Lower(OrEmpty(b.word1))
    /\ Lower(OrEmpty(a.word2)) = Lower(OrEmpty(b.word2))

NoDuplicates(rows) ==
    \A i, j \in 1..Len(rows) : i # j => ~SameEntry(rows[i], rows[j])

\* w is raw without the whitespace at its two ends
IsTrimOf(w, raw) ==
    /\ w # ""
    /\ CharAt(w, 1) \notin WhiteChars
    /\ CharAt(w, Len(w)) \notin WhiteChars
    /\ \E i \in 1..Len(raw) :
          /\ MatchAt(raw, w, i)
          /\ \A k \in 1..Len(raw) :
                (k < i \/ k >= i + Len(w)) => CharAt(raw, k) \in WhiteChars

\* caller p's call was given two words that are not blank
GivenPair(p) ==
    /\ _run[p].source_word # None
    /\ \E k \in 1..Len(_run[p].source_word) :
          CharAt(_run[p].source_word, k) \notin WhiteChars
    /\ \E k \in 1..Len(_run[p].translated_word) :
          CharAt(_run[p].translated_word, k) \notin WhiteChars

\* the pair caller p was given is in the deck as it was when the call began
PairPresent(p) ==
    \E i \in 1..Len(_run[p].before) :
       /\ _run[p].before[i].user_id = _run[p]._user_id
       /\ IsTrimOf(Lower(OrEmpty(_run[p].before[i].word1)), Lower(_run[p].source_word))
       /\ IsTrimOf(Lower(OrEmpty(_run[p].before[i].word2)), Lower(_run[p].translated_word))

\* what the claim promises of the call of caller p that has returned
SaveOutcome(p) ==
    IF PairPresent(p)
    THEN /\ OccursFrom(_run[p].ret, "already in your deck. No duplicate was created.", 1)
         /\ deck = _run[p].before
    ELSE /\ StartsWith(_run[p].ret, "Done! I've added")
         /\ Len(deck) = Len(_run[p].before) + 1
         /\ SubSeq(deck, 1, Len(_run[p].before)) = _run[p].before
         /\ deck[Len(deck)].user_id = _run[p]._user_id
         /\ IsTrimOf(deck[Len(deck)].word1, _run[p].source_word)
         /\ IsTrimOf(deck[Len(deck)].word2, _run[p].translated_word)

-----------------------------------------------------------------------------
(* Properties of concurrent SaveWordPairTool._run calls, checked under     *)
(* SpecSaveConcurrent                                                      *)

\* callers p and q were given the same pair, case-insensitively, for one user
SamePairGiven(p, q) ==
    /\ GivenPair(p) /\ GivenPair(q)
    /\ _run[p]._user_id = _run[q]._user_id
    /\ Lower(_run[p].source) = Lower(_run[q].source)
    /\ Lower(_run[p].translated) = Lower(_run[q].translated)

\* the rows of the deck that hold the pair caller p was given
RowsOfPair(p) ==
    { i \in 1..Len(deck) :
         /\ deck[i].user_id = _run[p]._user_id
         /\ IsTrimOf(Lower(OrEmpty(deck[i].word1)), Lower(_run[p].source_word))
         /\ IsTrimOf(Lower(OrEmpty(deck[i].word2)), Lower(_run[p].translated_word)) }

\* C21: after two calls for the same user and the same pair (equal
\* case-insensitively) have both returned, however their selects and
\* inserts were interleaved, the deck holds at most one row for the pair and
\* at most one of the two calls answered "Done! I've added".
C21_ConcurrentSavesOneRow ==
    \A p, q \in Callers :
       (p # q /\ _run[p].pc = "returned" /\ _run[q].pc = "returned" /\ SamePairGiven(p, q))
          => /\ Cardinality(RowsOfPair(p)) <= 1
             /\ ~(/\ StartsWith(_run[p].ret, "Done! I've added")
                  /\ StartsWith(_run[q].ret, "Done! I've added"))

-----------------------------------------------------------------------------
(* The voice agent's job (voice-agent/src/agent.py): entrypoint up to its  *)
(* return, and the start_game RPC handler it registers.  Both run on one   *)
(* event loop: the handler runs only while entrypoint is suspended at an   *)
(* await or has returned.                                                  *)

\* lines 224-229 and 231-235
ListIntro ==
    "Let's start our vocabulary game! I have a list of English words "
        \o "and their translations in your target language. "
        \o "I will say an English word and you answer with the translation. "
        \o "I'll tell you if it's correct and then move on to the next word."

FreeIntro ==
    "Let's start our vocabulary game! I will pick simple English words "
        \o "and you answer with the translation in your target language. "
        \o "I'll tell you if it's correct and then move on to the next word."

\* lines 97-102: the rows with two words that are not blank, stripped
UsableWords(rows) ==
    LET kept == SelectSeq(rows, LAMBDA row : /\ Strip(OrEmpty(row.word1)) # ""
                                             /\ Strip(OrEmpty(row.word2)) # "")
    IN  [ i \in 1..Len(kept) |-> [ english |-> Strip(OrEmpty(kept[i].word1)),
                                   target |-> Strip(OrEmpty(kept[i].word2)) ] ]

\* lines 77-106; resp.data is None when has_data is FALSE
_load_public_word_pairs(has_client, raises, resp) ==
    IF ~has_client THEN << >>
    ELSE IF raises THEN << >>
    ELSE UsableWords(IF resp.has_data THEN resp.data ELSE << >>)

\* the intro that does not look at the list
Intro_AlwaysList(pairs) == ListIntro

\* lines 222-236: the intro _start_quiz chooses for assistant._word_pairs
Intro(pairs) == IF pairs # << >> THEN ListIntro ELSE FreeIntro

\* responses of the select on the public deck
PublicRow(w1, w2) == [ word1 |-> w1, word2 |-> w2 ]
Responses ==
    { [ has_data |-> FALSE, data |-> << >> ],
      [ has_data |-> TRUE, data |-> << >> ],
      [ has_data |-> TRUE, data |-> << PublicRow(" ", "gato") >> ],
      [ has_data |-> TRUE, data |-> << PublicRow("dog", None), PublicRow(" cat ", "gato") >> ],
      [ has_data |-> TRUE, data |-> << PublicRow("dog", "cao"), PublicRow("cat", "gato") >> ],
      [ has_data |-> TRUE, data |-> << PublicRow("Sun ", "sol") >> ] }

\* start_game requests looked at
MaxRpcCalls == 3

\* what is left alone by the voice agent
nonVoice == <<routerVars, storeVars, httpVars>>

\* entrypoint is suspended at an await, or over
Suspended == entry_pc \in { "room_io", "session_start", "connect", "returned", "failed" }

\* lines 160-181: load the words, build the session, call room_io.start()
LoadWordPairs ==
    /\ entry_pc = "load"
    /\ \E has_client \in BOOLEAN, raises \in BOOLEAN, resp \in Responses :
          word_pairs' = _load_public_word_pairs(has_client, raises, resp)
    /\ entry_pc' = "room_io"
    /\ UNCHANGED <<nonVoice, session_started, connected, rpc_registered, replies, rpc_log>>

\* lines 181-198: room_io.start() returned; call session.start(agent=assistant)
RoomIoStarted ==
    /\ entry_pc = "room_io"
    /\ entry_pc' = "session_start"
    /\ UNCHANGED <<nonVoice, word_pairs, session_started, connected, rpc_registered,
                   replies, rpc_log>>

\* lines 198-201: session.start returned; call ctx.connect()
SessionStarted ==
    /\ entry_pc = "session_start"
    /\ session_started' = TRUE
    /\ entry_pc' = "connect"
    /\ UNCHANGED <<nonVoice, word_pairs, connected, rpc_registered, replies, rpc_log>>

\* lines 201-251: ctx.connect() returned; up to the registration of start_game
ConnectedAndRegistered ==
    /\ entry_pc = "connect"
    /\ connected' = TRUE
    /\ rpc_registered' = TRUE
    /\ entry_pc' = "auto_start"
    /\ UNCHANGED <<nonVoice, word_pairs, session_started, replies, rpc_log>>

\* lines 253-256: the automatic _start_quiz(), then entrypoint returns
AutoStart ==
    /\ entry_pc = "auto_start"
    /\ replies' = Append(replies, [ by |-> "entrypoint", user_input |-> Intro(word_pairs) ])
    /\ entry_pc' = "returned"
    /\ UNCHANGED <<nonVoice, word_pairs, session_started, connected, rpc_registered, rpc_log>>

\* lines 181, 198, 201: the awaited call raises and entrypoint ends
AwaitRaises ==
    /\ entry_pc \in { "room_io", "session_start", "connect" }
    /\ entry_pc' = "failed"
    /\ UNCHANGED <<nonVoice, word_pairs, session_started, connected, rpc_registered,
                   replies, rpc_log>>

\* the event loop is free to run the handler of a start_game request
HandlerMayRun == Suspended

\* lines 241-251: a start_game request reaches the registered handler
StartGame ==
    /\ rpc_registered
    /\ HandlerMayRun
    /\ Len(rpc_log) < MaxRpcCalls
    /\ replies' = Append(replies, [ by |-> "start_game", user_input |-> Intro(word_pairs) ])
    /\ rpc_log' = Append(rpc_log, "handled")
    /\ UNCHANGED <<nonVoice, entry_pc, word_pairs, session_started, connected, rpc_registered>>

\* line 241 not yet run: a start_game request finds no handler
StartGameUnregistered ==
    /\ ~rpc_registered
    /\ Len(rpc_log) < MaxRpcCalls
    /\ rpc_log' = Append(rpc_log, "no handler")
    /\ UNCHANGED <<nonVoice, entry_pc, word_pairs, session_started, connected,
                   rpc_registered, replies>>

InitVoice ==
    /\ RouterIdle("idle", << >>, "")
    /\ StoreIdle
    /\ HttpIdle
    /\ VoiceIdle

\* the steps of entrypoint
EntrypointStep ==
    \/ LoadWordPairs
    \/ RoomIoStarted
    \/ SessionStarted
    \/ ConnectedAndRegistered
    \/ AutoStart

NextVoice ==
    \/ EntrypointStep
    \/ AwaitRaises
    \/ StartGame
    \/ StartGameUnregistered

SpecVoice == InitVoice /\ [][NextVoice]_vars

\* entrypoint runs on from ctx.connect()'s return without waiting
SpecVoiceFair == SpecVoice /\ WF_vars(ConnectedAndRegistered \/ AutoStart)

-----------------------------------------------------------------------------
(* Properties of the voice agent, checked under SpecVoiceFair *)

\* the positions of the replies asked for by who
RepliesBy(who) == { i \in 1..Len(replies) : replies[i].by = who }

HandledRequests == { i \in 1..Len(rpc_log) : rpc_log[i] = "handled" }

\* the ordering and the counts of the intro replies
C13_IntroCounts ==
    /\ Cardinality(RepliesBy("entrypoint")) = (IF entry_pc = "returned" THEN 1 ELSE 0)
    /\ replies # << >> =>
          /\ replies[1].by = "entrypoint"
          /\ session_started /\ connected /\ rpc_registered
    /\ Cardinality(RepliesBy("start_game")) = Cardinality(HandledRequests)
    /\ Len(replies) = Cardinality(RepliesBy("entrypoint")) + Cardinality(HandledRequests)
    /\ HandledRequests # {} => session_started /\ connected
    /\ \A i \in 1..Len(replies) :
          /\ replies[i].user_input \in { ListIntro, FreeIntro }
          /\ replies[i].user_input = ListIntro <=> Len(word_pairs) > 0

\* C13: the first intro reply is the automatic one, generated once, after
\* session.start and ctx.connect completed and start_game was registered;
\* it follows whenever the room got connected; every handled start_game
\* request adds exactly one intro, and none is handled before session.start
\* and ctx.connect completed; an intro is the list-based text exactly when
\* the loaded list is not empty.
C13_IntroOnceThenPerRestart ==
    /\ []C13_IntroCounts
    /\ [][Len(rpc_log') > Len(rpc_log) /\ rpc_log'[Len(rpc_log')] = "handled"
            => Len(replies') = Len(replies) + 1]_vars
    /\ connected ~> (RepliesBy("entrypoint") # {})

C13_Witness ==
    /\ entry_pc = "returned"
    /\ Len(word_pairs) > 0
    /\ Len(replies) = 3
    /\ replies[3].user_input = ListIntro
    /\ rpc_log = << "no handler", "handled", "handled" >>

-----------------------------------------------------------------------------
(* One request to /api/tutor-chat (run.py): require_auth, the validation   *)
(* of tutor_chat, run_tutor_router as modelled above, the response.        *)

Respond(status, body) == [ status |-> status, body |-> body ]

\* line 72: auth_header.split(" ")[1] if " " in auth_header else auth_header
TokenOf(header) ==
    IF ~Contains(header, " ") THEN header
    ELSE LET first == Find(header, " ", 1)
             second == Find(header, " ", first + 1)
         IN  IF second = 0 THEN From(header, first + 1)
             ELSE SubSeq(header, first + 1, second - 1)

\* the tokens Supabase knows, and the user of each
ValidTokens == { "jwt" }
UserOf(token) == [ id |-> "user-1" ]

\* line 78: supabase.auth.get_user(token); fails stands for any other error
get_user(token, fails) ==
    IF fails THEN [ raised |-> TRUE, error |-> "Server disconnected" ]
    ELSE IF token \notin ValidTokens
    THEN [ raised |-> TRUE, error |-> "invalid JWT" ]
    ELSE [ raised |-> FALSE, user |-> UserOf(token) ]

\* require_auth letting the handler run whatever get_user did
require_auth_IgnoresFailure(header, fails) ==
    IF ~Truthy(header)
    THEN [ proceed |-> FALSE,
           response |-> Respond(401, [ error |-> "Authorization header is required" ]),
           called |-> << >> ]
    ELSE [ proceed |-> TRUE,
           request |-> [ user |-> UserOf(TokenOf(header)), auth_token |-> TokenOf(header) ],
           called |-> << IF get_user(TokenOf(header), fails).raised
                         THEN "get_user raised" ELSE "get_user returned" >> ]

\* lines 64-84: require_auth up to the call of the handler
require_auth(header, fails) ==
    IF ~Truthy(header)
    THEN [ proceed |-> FALSE,
           response |-> Respond(401, [ error |-> "Authorization header is required" ]),
           called |-> << >> ]
    ELSE LET token == TokenOf(header)
             user_response == get_user(token, fails)
         IN  IF user_response.raised
             THEN [ proceed |-> FALSE,
                    response |-> Respond(401, [ error |-> "Authentication failed: "
                                                            \o user_response.error ]),
                    called |-> << "get_user raised" >> ]
             ELSE [ proceed |-> TRUE,
                    request |-> [ user |-> user_response.user, auth_token |-> token ],
                    called |-> << "get_user returned" >> ]

\* Python's "not v"
Falsy(v) ==
    \/ v.type = "NoneType"
    \/ v.type = "str" /\ v.value = ""
    \/ v.type = "int" /\ v.value = 0
    \/ v.type = "list" /\ v.items = << >>
    \/ v.type = "dict" /\ "keys" \in DOMAIN v /\ v.keys = {}

NoAttribute(v, name) == "'" \o v.type \o "' object has no attribute '" \o name \o "'"

\* line 590: "messages" not in data, or the TypeError it raises
MessagesNotIn(v) ==
    IF v.type = "dict" THEN [ raised |-> FALSE, value |-> "messages" \notin v.keys ]
    ELSE IF v.type = "str" THEN [ raised |-> FALSE, value |-> ~Contains(v.value, "messages") ]
    ELSE IF v.type = "list"
    THEN [ raised |-> FALSE, value |-> \A i \in 1..Len(v.items) : v.items[i] # JStr("messages") ]
    ELSE [ raised |-> TRUE, error |-> "argument of type '" \o v.type \o "' is not iterable" ]

\* lines 599-600: (msg.get(key) or "").strip() for the value v under key
FieldText(v) ==
    IF Falsy(v) THEN [ raised |-> FALSE, value |-> "" ]
    ELSE IF v.type = "str" THEN [ raised |-> FALSE, value |-> Strip(v.value) ]
    ELSE [ raised |-> TRUE, error |-> NoAttribute(v, "strip") ]

Roles == { "user", "assistant", "system" }

\* lines 598-603 for one element: raised, or kept with its stripped fields
Checked(msg) ==
    IF msg.type # "dict" THEN [ raised |-> TRUE, error |-> NoAttribute(msg, "get") ]
    ELSE IF FieldText(msg.role).raised THEN FieldText(msg.role)
    ELSE IF FieldText(msg.content).raised THEN FieldText(msg.content)
    ELSE [ raised |-> FALSE,
           kept |-> FieldText(msg.role).value \in Roles /\ FieldText(msg.content).value # "",
           value |-> Msg(FieldText(msg.role).value, FieldText(msg.content).value) ]

\* lines 597-603: validated_messages, when no element raises
Validated(items) ==
    LET kept == SelectSeq(items, LAMBDA msg : Checked(msg).kept)
    IN  [ i \in 1..Len(kept) |-> Checked(kept[i]).value ]

Traceback == "Traceback (most recent call last): ..."

\* lines 622-630
ServerError(e) == Respond(500, [ error |-> e, traceback |-> Traceback ])

\* lines 588-606: tutor_chat up to user_id = ...; get_json_raises stands for
\* request.get_json() raising on a body that is no JSON
tutor_chat(get_json_raises, body) ==
    IF get_json_raises
    THEN [ proceed |-> FALSE, response |-> ServerError("400 Bad Request") ]
    ELSE IF Falsy(body)
    THEN [ proceed |-> FALSE,
           response |-> Respond(400, [ error |-> "Request body must include 'messages' array" ]) ]
    ELSE IF MessagesNotIn(body).raised
    THEN [ proceed |-> FALSE, response |-> ServerError(MessagesNotIn(body).error) ]
    ELSE IF MessagesNotIn(body).value
    THEN [ proceed |-> FALSE,
           response |-> Respond(400, [ error |-> "Request body must include 'messages' array" ]) ]
    ELSE IF body.type # "dict"
    THEN [ proceed |-> FALSE, response |-> ServerError(NoAttribute(body, "get")) ]
    ELSE IF body.messages.type # "list" \/ Len(body.messages.items) = 0
    THEN [ proceed |-> FALSE,
           response |-> Respond(400, [ error |-> "'messages' must be a non-empty array" ]) ]
    ELSE LET items == body.messages.items
             bad == { i \in 1..Len(items) : Checked(items[i]).raised }
         IN  IF bad # {}
             THEN [ proceed |-> FALSE,
                    response |-> ServerError(Checked(items[Min(bad)]).error) ]
             ELSE IF Validated(items) = << >>
             THEN [ proceed |-> FALSE,
                    response |-> Respond(400, [ error |-> "No valid messages provided" ]) ]
             ELSE [ proceed |-> TRUE, validated_messages |-> Validated(items) ]

\* the requests looked at
Headers == { None, "", "bad", "Bearer bad", "Bearer jwt" }
MaxBodyMessages == 2
Elements ==
    { JMsg(JStr(" user "), JStr(" Yes, save it! ")),
      JMsg(JStr("assistant"), JStr(TranslationOffer)),
      JMsg(JStr("tool"), JStr("42")),
      JMsg(JNull, JStr("  ")),
      JMsg(JInt(5), JStr("hi")),
      JStr("hi") }
Bodies ==
    { JNull, JInt(5), JStr("messages"), JList(<< JStr("messages") >>),
      JBody({}, JNull), JBody({ "text" }, JNull),
      JBody({ "messages" }, JNull), JBody({ "messages" }, JStr("hi")) }
    \cup { JBody({ "messages" }, JList(items)) : items \in SeqsUpTo(Elements, MaxBodyMessages) }

\* what is left alone by the request outside run_tutor_router
nonHttp == <<storeVars, voiceVars>>

\* the locals of run_tutor_router, untouched while it is not running
routerLocals == <<save_tool, check_tool, router_result, decision, override_intent,
                  crew, specialist_result, result, is_save_confirmation, calls, arg, ret>>

\* lines 64-82: no header, or get_user raises: 401
AuthRejects ==
    /\ http_pc = "auth"
    /\ \E fails \in BOOLEAN :
          LET auth == require_auth(auth_header, fails)
          IN  /\ ~auth.proceed
              /\ response' = auth.response
              /\ http_log' = http_log \o auth.called
    /\ http_pc' = "responded"
    /\ UNCHANGED <<nonHttp, routerVars, auth_header, data, request>>

\* lines 64-84: the token is verified and the handler is called
AuthPasses ==
    /\ http_pc = "auth"
    /\ \E fails \in BOOLEAN :
          LET auth == require_auth(auth_header, fails)
          IN  /\ auth.proceed
              /\ request' = auth.request
              /\ http_log' = http_log \o auth.called \o << "tutor_chat" >>
    /\ http_pc' = "tutor_chat"
    /\ UNCHANGED <<nonHttp, routerVars, auth_header, data, response>>

\* lines 588-606 and 622-630: the body is refused or the validation raises
TutorChatResponds ==
    /\ http_pc = "tutor_chat"
    /\ \E get_json_raises \in BOOLEAN :
          LET chat == tutor_chat(get_json_raises, data)
          IN  /\ ~chat.proceed
              /\ response' = chat.response
              /\ http_log' = IF get_json_raises THEN Append(http_log, "get_json raised")
                             ELSE http_log
    /\ http_pc' = "responded"
    /\ UNCHANGED <<nonHttp, routerVars, auth_header, data, request>>

\* lines 588-619: validated messages, get_user_context, run_tutor_router begins
TutorChatCallsRouter ==
    /\ http_pc = "tutor_chat"
    /\ LET chat == tutor_chat(FALSE, data)
       IN  /\ chat.proceed
           /\ messages' = chat.validated_messages
    /\ user_id' = request.user.id
    /\ access_token' = request.auth_token
    /\ pc' = "start"
    /\ http_log' = http_log \o << "get_user_context", "run_tutor_router" >>
    /\ http_pc' = "run_tutor_router"
    /\ UNCHANGED <<nonHttp, routerLocals, auth_header, data, request, response>>

\* lines 614-620: run_tutor_router returned
RouterReturned ==
    /\ http_pc = "run_tutor_router"
    /\ pc = "done"
    /\ response' = Respond(200, result)
    /\ http_pc' = "responded"
    /\ UNCHANGED <<nonHttp, routerVars, auth_header, data, request, http_log>>

\* lines 614-630: run_tutor_router raised
RouterRaised ==
    /\ http_pc = "run_tutor_router"
    /\ pc = "raised"
    /\ response' = ServerError("kickoff failed")
    /\ http_pc' = "responded"
    /\ UNCHANGED <<nonHttp, routerVars, auth_header, data, request, http_log>>

InitHttp ==
    /\ RouterIdle("idle", << >>, "")
    /\ StoreIdle
    /\ VoiceIdle
    /\ http_pc = "auth"
    /\ auth_header \in Headers
    /\ data \in Bodies
    /\ request = NoRequest
    /\ response = NoResponse
    /\ http_log = << >>

NextHttp ==
    \/ AuthRejects
    \/ AuthPasses
    \/ TutorChatResponds
    \/ TutorChatCallsRouter
    \/ Next
    \/ RouterReturned
    \/ RouterRaised

SpecHttp == InitHttp /\ [][NextHttp]_vars

-----------------------------------------------------------------------------
(* Properties of the request to /api/tutor-chat, checked under SpecHttp *)

\* position of an entry in the history of calls, 0 if it is not there
Called(what) ==
    LET at == { i \in 1..Len(http_log) : http_log[i] = what }
    IN  IF at = {} THEN 0 ELSE Min(at)

\* run_tutor_router has not been entered: no crew built, none kicked off
RouterUntouched ==
    /\ pc = "idle"
    /\ messages = << >>
    /\ calls = << >>
    /\ crew = NoCrew
    /\ router_result = NoOutput
    /\ result = NoResult

\* C14: the handler runs only after get_user returned for the token of this
\* request's Authorization header; a request without the header, or one
\* whose verification raised, is answered 401 and neither the handler nor
\* the router nor a specialist is invoked.
C14_HandlerOnlyAfterVerification ==
    /\ Called("tutor_chat") # 0 =>
          /\ Truthy(auth_header)
          /\ Called("get_user returned") # 0
          /\ Called("get_user returned") < Called("tutor_chat")
          /\ Called("get_user raised") = 0
          /\ request.user.id # None
          /\ request.auth_token \in ValidTokens
          /\ OccursFrom(auth_header, request.auth_token, 1)
    /\ Called("tutor_chat") = 0 => RouterUntouched
    /\ (http_pc = "responded" /\ (~Truthy(auth_header) \/ Called("get_user raised") # 0)) =>
          /\ response.status = 401
          /\ Called("tutor_chat") = 0
          /\ Called("run_tutor_router") = 0
          /\ RouterUntouched

C14_Witness ==
    /\ http_pc = "responded"
    /\ auth_header = "Bearer bad"
    /\ response.status = 401
    /\ data.type = "dict"
    /\ data.messages.type = "list"
    /\ Len(data.messages.items) = 1
    /\ data.messages.items[1] = JMsg(JStr(" user "), JStr(" Yes, save it! "))

\* the element is an object with a role among user, assistant and system and
\* a content that is not blank
ValidElement(e) ==
    /\ e.type = "dict"
    /\ e.role.type = "str"
    /\ \E r \in Roles : IsTrimOf(r, e.role.value)
    /\ e.content.type = "str"
    /\ \E k \in 1..Len(e.content.value) : CharAt(e.content.value, k) \notin WhiteChars

\* the body holds a non-empty list under "messages"
HasMessageList ==
    /\ data.type = "dict"
    /\ "messages" \in data.keys
    /\ data.messages.type = "list"
    /\ Len(data.messages.items) > 0

\* the valid elements of the body, in their order
ValidItems == SelectSeq(data.messages.items, ValidElement)

\* C15: a body without "messages", with a "messages" that is no non-empty
\* list, or without any valid element is answered 400 and the router is not
\* invoked; for any other body the router receives the valid elements, in
\* order, role and content trimmed, the other elements being dropped; when
\* reading the body or the router raises, the answer is 500 with an error
\* field.
C15_ValidationOutcome ==
    (http_pc = "responded" /\ Called("tutor_chat") # 0) =>
        IF Called("get_json raised") # 0 \/ pc = "raised"
        THEN response.status = 500 /\ "error" \in DOMAIN response.body
        ELSE IF ~HasMessageList \/ ValidItems = << >>
        THEN response.status = 400 /\ Called("run_tutor_router") = 0 /\ RouterUntouched
        ELSE /\ response.status = 200
             /\ Called("run_tutor_router") # 0
             /\ Len(messages) = Len(ValidItems)
             /\ \A i \in 1..Len(messages) :
                   /\ IsTrimOf(messages[i].role, ValidItems[i].role.value)
                   /\ IsTrimOf(messages[i].content, ValidItems[i].content.value)

=============================================================================
